---- MODULE Spec2Model ----
(***************************************************************************)
(* Model of src/systemd/mod.rs: unit classification (UnitType::new),       *)
(* enablement-state decoding (UnitState::new), description extraction      *)
(* (get_unit_description) and the two retrieval operations of SystemdUnit  *)
(* (get_info, get_journal).                                                *)
(*                                                                         *)
(* Text is a sequence of one-character strings; bytes are naturals.        *)
(* A Rust panic is an outcome of kind "panic" that ends the process.       *)
(***************************************************************************)
EXTENDS Integers, Sequences, FiniteSets, TLC

VARIABLES req, env, last, running, remaining

vars == <<req, env, last, running, remaining>>

(***************************************************************************)
(* Bounds of the explored inputs.                                          *)
(***************************************************************************)
MaxChunks == 5
MaxPrefix == 8
MaxBytes  == 3
MaxBatch  == 2

(***************************************************************************)
(* Text helpers.                                                           *)
(***************************************************************************)
RECURSIVE Flatten(_)
Flatten(ss) == IF ss = <<>> THEN <<>> ELSE Head(ss) \o Flatten(Tail(ss))

RECURSIVE Repeat(_, _)
Repeat(c, n) == IF n = 0 THEN <<>> ELSE <<c>> \o Repeat(c, n - 1)

SeqsUpTo(S, n) == UNION {[1..k -> S] : k \in 0..n}

Drop(s, n) == SubSeq(s, n + 1, Len(s))

StartsWith(s, p) == Len(s) >= Len(p) /\ SubSeq(s, 1, Len(p)) = p

EndsWith(s, p) == Len(s) >= Len(p) /\ SubSeq(s, Len(s) - Len(p) + 1, Len(s)) = p

IndicesOf(s, c) == {i \in 1..Len(s) : s[i] = c}

FirstIndexOf(s, c) ==
    IF IndicesOf(s, c) = {} THEN 0
    ELSE CHOOSE i \in IndicesOf(s, c) : \A j \in IndicesOf(s, c) : i <= j

LastIndexOf(s, c) ==
    IF IndicesOf(s, c) = {} THEN 0
    ELSE CHOOSE i \in IndicesOf(s, c) : \A j \in IndicesOf(s, c) : j <= i

\* Iterator::take_while(|x| *x != c)
TakeWhileNot(s, c) ==
    IF FirstIndexOf(s, c) = 0 THEN s ELSE SubSeq(s, 1, FirstIndexOf(s, c) - 1)

\* str::split(c): the pieces between the occurrences of c, empty ones kept.
RECURSIVE Split(_, _)
Split(s, c) ==
    IF FirstIndexOf(s, c) = 0 THEN <<s>>
    ELSE <<SubSeq(s, 1, FirstIndexOf(s, c) - 1)>> \o Split(Drop(s, FirstIndexOf(s, c)), c)

(***************************************************************************)
(* Option<T> and the outcome of a call.                                    *)
(***************************************************************************)
None == [some |-> FALSE, val |-> <<>>]
Some(v) == [some |-> TRUE, val |-> v]

\* A call returns a value (tag: the enum variant, text: the string carried)
\* or panics with a message.
Value(tag)       == [kind |-> "value", tag |-> tag, text |-> <<>>]
Panic(what, arg) == [kind |-> "panic", tag |-> what, text |-> arg]
Text(t)          == [kind |-> "text", tag |-> "String", text |-> t]
OptNone          == [kind |-> "None", tag |-> "Option", text |-> <<>>]
OptSome(t)       == [kind |-> "Some", tag |-> "Option", text |-> t]
NoOutcome        == [kind |-> "pending", tag |-> "", text |-> <<>>]

(***************************************************************************)
(* The literals of the source.                                             *)
(***************************************************************************)
W_automount == <<"a","u","t","o","m","o","u","n","t">>
W_busname   == <<"b","u","s","n","a","m","e">>
W_mount     == <<"m","o","u","n","t">>
W_path      == <<"p","a","t","h">>
W_scope     == <<"s","c","o","p","e">>
W_service   == <<"s","e","r","v","i","c","e">>
W_slice     == <<"s","l","i","c","e">>
W_socket    == <<"s","o","c","k","e","t">>
W_swap      == <<"s","w","a","p">>
W_target    == <<"t","a","r","g","e","t">>
W_timer     == <<"t","i","m","e","r">>

DescriptionPrefix == <<"D","e","s","c","r","i","p","t","i","o","n","=">>

JournalFallbackHead ==
    <<"U","n","a","b","l","e"," ","t","o"," ","r","e","a","d"," ","t","h","e"," ",
      "j","o","u","r","n","a","l"," ","e","n","t","r","y"," ","f","o","r"," ">>

(***************************************************************************)
(* std::path::Path (Unix): file_name() and extension().                    *)
(***************************************************************************)
\* Path::components(): the pieces between separators; empty pieces vanish,
\* "." vanishes except as the first piece of a relative path.
RECURSIVE KeepComponents(_, _)
KeepComponents(pieces, i) ==
    IF i > Len(pieces) THEN <<>>
    ELSE IF pieces[i] = <<>> \/ (pieces[i] = <<".">> /\ i > 1)
         THEN KeepComponents(pieces, i + 1)
         ELSE <<pieces[i]>> \o KeepComponents(pieces, i + 1)

Components(pathname) == KeepComponents(Split(pathname, "/"), 1)

\* Path::file_name(): the last component when it is a normal one.
FileName(pathname) ==
    LET cs == Components(pathname) IN
    IF cs = <<>> THEN None
    ELSE IF cs[Len(cs)] \in {<<".">>, <<".", ".">>} THEN None
    ELSE Some(cs[Len(cs)])

\* Path::extension(): file_name split at its last '.', absent when there is
\* no '.' or nothing before it.
Extension(pathname) ==
    LET fn == FileName(pathname) IN
    IF ~fn.some THEN None
    ELSE LET dot == LastIndexOf(fn.val, ".") IN
         IF dot = 0 THEN None
         ELSE IF SubSeq(fn.val, 1, dot - 1) = <<>> THEN None
         ELSE Some(Drop(fn.val, dot))

(***************************************************************************)
(* UnitType::new                                                           *)
(***************************************************************************)
UnitTypes ==
    {"Automount", "Busname", "Mount", "Path", "Scope", "Service", "Slice",
     "Socket", "Swap", "Target", "Timer"}

\* A match arm listed out of place: "swap" yields Socket.
UnitTypeMatchSwapped(ext, pathname) ==
    CASE ext = W_automount -> Value("Automount")
      [] ext = W_busname   -> Value("Busname")
      [] ext = W_mount     -> Value("Mount")
      [] ext = W_path      -> Value("Path")
      [] ext = W_scope     -> Value("Scope")
      [] ext = W_service   -> Value("Service")
      [] ext = W_slice     -> Value("Slice")
      [] ext = W_socket    -> Value("Socket")
      [] ext = W_swap      -> Value("Socket")
      [] ext = W_target    -> Value("Target")
      [] ext = W_timer     -> Value("Timer")
      [] OTHER             -> Panic("Unknown Type", pathname)

\* The match of UnitType::new on the extension.
UnitTypeMatch(ext, pathname) ==
    CASE ext = W_automount -> Value("Automount")
      [] ext = W_busname   -> Value("Busname")
      [] ext = W_mount     -> Value("Mount")
      [] ext = W_path      -> Value("Path")
      [] ext = W_scope     -> Value("Scope")
      [] ext = W_service   -> Value("Service")
      [] ext = W_slice     -> Value("Slice")
      [] ext = W_socket    -> Value("Socket")
      [] ext = W_swap      -> Value("Swap")
      [] ext = W_target    -> Value("Target")
      [] ext = W_timer     -> Value("Timer")
      [] OTHER             -> Panic("Unknown Type", pathname)

\* Path::new(pathname).extension().unwrap().to_str().unwrap(), then the match.
\* to_str() of a path made from a &str never fails.
UnitType_new(pathname) ==
    IF ~Extension(pathname).some
    THEN Panic("unwrap on None", pathname)
    ELSE UnitTypeMatch(Extension(pathname).val, pathname)

(***************************************************************************)
(* UnitState::new                                                          *)
(***************************************************************************)
UnitStates ==
    {"Bad", "Disabled", "Enabled", "Generated", "Indirect", "Linked", "Masked",
     "Static", "Transient"}

\* x.chars().skip(PayloadOffset)
PayloadOffset == 6

\* One character too many skipped.
SkipCharsOneMore(x) == Drop(x, PayloadOffset + 1)

SkipChars(x) == Drop(x, PayloadOffset)

\* Two arms exchanged: 'd' yields Enabled and 'e' yields Disabled.
UnitStateMatchSwapped(c, x) ==
    CASE c = "s" -> Value("Static")
      [] c = "d" -> Value("Enabled")
      [] c = "e" -> Value("Disabled")
      [] c = "i" -> Value("Indirect")
      [] c = "l" -> Value("Linked")
      [] c = "m" -> Value("Masked")
      [] c = "b" -> Value("Bad")
      [] c = "g" -> Value("Generated")
      [] c = "t" -> Value("Transient")
      [] OTHER   -> Panic("Unknown State", x)

\* The last arm forgotten: 't' is not recognised.
UnitStateMatchMissingArm(c, x) ==
    CASE c = "s" -> Value("Static")
      [] c = "d" -> Value("Disabled")
      [] c = "e" -> Value("Enabled")
      [] c = "i" -> Value("Indirect")
      [] c = "l" -> Value("Linked")
      [] c = "m" -> Value("Masked")
      [] c = "b" -> Value("Bad")
      [] c = "g" -> Value("Generated")
      [] OTHER   -> Panic("Unknown State", x)

\* The match of UnitState::new on the first payload character.
UnitStateMatch(c, x) ==
    CASE c = "s" -> Value("Static")
      [] c = "d" -> Value("Disabled")
      [] c = "e" -> Value("Enabled")
      [] c = "i" -> Value("Indirect")
      [] c = "l" -> Value("Linked")
      [] c = "m" -> Value("Masked")
      [] c = "b" -> Value("Bad")
      [] c = "g" -> Value("Generated")
      [] c = "t" -> Value("Transient")
      [] OTHER   -> Panic("Unknown State", x)

\* x.chars().skip(6).take_while(|x| *x != '"').next().unwrap(), then the match.
UnitState_new(x) ==
    LET payload == TakeWhileNot(SkipChars(x), "\"") IN
    IF payload = <<>>
    THEN Panic("unwrap on None", x)
    ELSE UnitStateMatch(Head(payload), x)

(***************************************************************************)
(* get_unit_description                                                    *)
(***************************************************************************)
StripCR(line) ==
    IF EndsWith(line, <<"\r">>) THEN SubSeq(line, 1, Len(line) - 1) ELSE line

\* str::lines(): pieces ended by "\n" or "\r\n", the terminator removed; a
\* last piece without terminator is a line as it stands; no empty last line.
Lines(info) ==
    LET ps == Split(info, "\n")
        n  == Len(ps)
    IN  [i \in 1..(IF ps[n] = <<>> THEN n - 1 ELSE n) |->
            IF i < n THEN StripCR(ps[i]) ELSE ps[i]]

Contains(s, p) == \E i \in 0..(Len(s) - Len(p)) : SubSeq(s, i + 1, i + Len(p)) = p

\* The prefix matched anywhere in the line instead of at its start.
IsDescriptionLineAnywhere(x) == Contains(x, DescriptionPrefix)

\* |x| x.starts_with("Description=")
IsDescriptionLine(x) == StartsWith(x, DescriptionPrefix)

\* Iterator::find: the first element the predicate accepts.
FindDescriptionLine(ls) ==
    LET hits == {i \in 1..Len(ls) : IsDescriptionLine(ls[i])} IN
    IF hits = {} THEN None
    ELSE Some(ls[CHOOSE i \in hits : \A j \in hits : i <= j])

SplitAt == 12

\* description.split_at(12).1
AfterPrefix(description) == Drop(description, SplitAt)

get_unit_description(info) ==
    LET found == FindDescriptionLine(Lines(info)) IN
    IF found.some THEN OptSome(AfterPrefix(found.val)) ELSE OptNone

(***************************************************************************)
(* String::from_utf8 / Read::read_to_string over the bytes explored.       *)
(***************************************************************************)
\* The character of a code point, as a token.
CharOf(cp) ==
    CASE cp = 10  -> "\n"
      [] cp = 97  -> "a"
      [] cp = 233 -> "U+00E9"
      [] OTHER    -> "U+FFFD"

\* UTF-8 validation and decoding of one- and two-byte sequences; every other
\* lead byte of ByteAlphabet (a lone continuation byte, 0xFF) is invalid.
RECURSIVE Utf8Decode(_)
Utf8Decode(bytes) ==
    IF bytes = <<>> THEN Some(<<>>)
    ELSE IF bytes[1] < 128
         THEN LET rest == Utf8Decode(Tail(bytes)) IN
              IF rest.some THEN Some(<<CharOf(bytes[1])>> \o rest.val) ELSE None
    ELSE IF bytes[1] \in 194..223 /\ Len(bytes) >= 2 /\ bytes[2] \in 128..191
         THEN LET rest == Utf8Decode(Drop(bytes, 2)) IN
              IF rest.some
              THEN Some(<<CharOf((bytes[1] - 192) * 64 + (bytes[2] - 128))>> \o rest.val)
              ELSE None
    ELSE None

(***************************************************************************)
(* SystemdUnit::get_info                                                   *)
(***************************************************************************)
\* A file of the file system: whether open() succeeds, whether metadata()
\* and read() succeed, and the bytes stored.
FileNotFound   == [open |-> "NotFound", meta |-> "Err", read |-> "Err", bytes |-> <<>>]
FileDenied     == [open |-> "PermissionDenied", meta |-> "Err", read |-> "Err", bytes |-> <<>>]
FileOf(m, r, b) == [open |-> "Ok", meta |-> m, read |-> r, bytes |-> b]

\* file.read_to_string(&mut output)
read_to_string(file) ==
    IF file.read # "Ok" THEN None ELSE Utf8Decode(file.bytes)

\* The open error propagated to the caller instead of defaulted.
get_info_propagating(unit, fs) ==
    IF fs[unit.path].open # "Ok"
    THEN Panic("open failed", unit.path)
    ELSE IF read_to_string(fs[unit.path]).some
         THEN Text(read_to_string(fs[unit.path]).val)
         ELSE Text(<<>>)

\* File::open(&self.path).map(read it or default).ok().unwrap_or_default()
\* metadata() only sizes the buffer (0 when it fails) and has no part in the
\* result.
get_info(unit, fs) ==
    IF fs[unit.path].open # "Ok"
    THEN Text(<<>>)
    ELSE IF read_to_string(fs[unit.path]).some
         THEN Text(read_to_string(fs[unit.path]).val)
         ELSE Text(<<>>)

(***************************************************************************)
(* SystemdUnit::get_journal                                                *)
(***************************************************************************)
\* Command::new("journalctl").arg("-b").arg("-r").arg("-u").arg(&self.name)
journal_command(unit) ==
    <<<<"j","o","u","r","n","a","l","c","t","l">>, <<"-","b">>, <<"-","r">>,
      <<"-","u">>, unit.name>>

\* Command::output(): absent when the tool cannot be run, else the bytes the
\* tool wrote for the unit named by the last argument.
command_output(argv, tool) ==
    IF tool.spawn # "Ok" THEN None ELSE Some(tool.logs[argv[Len(argv)]])

\* The fallback without the unit's name.
journal_fallback_unnamed(unit) == JournalFallbackHead \o <<".">>

\* format!("Unable to read the journal entry for {}.", self.name)
journal_fallback(unit) == JournalFallbackHead \o unit.name \o <<".">>

get_journal(unit, tool) ==
    LET output == command_output(journal_command(unit), tool) IN
    IF ~output.some THEN Text(journal_fallback(unit))
    ELSE IF Utf8Decode(output.val).some
         THEN Text(Utf8Decode(output.val).val)
         ELSE Text(journal_fallback(unit))

(***************************************************************************)
(* The inputs explored.                                                    *)
(***************************************************************************)
RecognizedSuffixes ==
    {W_automount, W_busname, W_mount, W_path, W_scope, W_service, W_slice,
     W_socket, W_swap, W_target, W_timer}

OtherSuffixes ==
    {<<>>, <<"S","e","r","v","i","c","e">>, <<"T","I","M","E","R">>,
     <<"s","e","r","v","i","c","e","s">>, <<"c","o","n","f">>, <<"i","m","e","r">>}

PathDirs  == {<<>>, <<"/">>, <<"e","t","c","/">>, <<".","/">>, <<"a",".","d","/">>}
PathStems == {<<>>, <<"a">>, <<"a",".","b">>, <<".">>}
PathExts  == {<<>>} \cup {<<".">> \o w : w \in RecognizedSuffixes \cup OtherSuffixes}
PathTails == {<<>>, <<"/">>, <<"/",".">>, <<"/",".",".">>, <<"/","x">>}

PathInputs ==
    {d \o s \o e \o t : d \in PathDirs, s \in PathStems, e \in PathExts, t \in PathTails}

StateNames ==
    {<<"s","t","a","t","i","c">>, <<"d","i","s","a","b","l","e","d">>,
     <<"e","n","a","b","l","e","d">>, <<"i","n","d","i","r","e","c","t">>,
     <<"l","i","n","k","e","d">>, <<"m","a","s","k","e","d">>, <<"b","a","d">>,
     <<"g","e","n","e","r","a","t","e","d">>,
     <<"t","r","a","n","s","i","e","n","t">>}

Discriminators == {"s", "d", "e", "i", "l", "m", "b", "g", "t"}

\* The wrapper in front of the payload: MaxPrefix filler characters at most,
\* or a property wrapper of six characters ending in the opening quote.
MsgPrefixes ==
    {Repeat(" ", k) : k \in 0..MaxPrefix} \cup {<<" ","S","t","r","(","\"">>}

MsgPayloads ==
    StateNames \cup {<<c>> : c \in Discriminators \cup {"x", "E"}}
    \cup {<<>>, <<"x","e">>, <<"e","s">>, <<"u","n","k","n","o","w","n">>}

MsgTails == {<<>>, <<"\"">>, <<"\"",")","]">>}

MsgInputs == {p \o w \o t : p \in MsgPrefixes, w \in MsgPayloads, t \in MsgTails}

NameFoo   == <<"N","a","m","e","=","f","o","o">>
MyService == <<"M","y"," ","S","e","r","v","i","c","e">>

InfoChunks == {NameFoo, <<"\n">>, <<"\r">>, DescriptionPrefix, MyService}

InfoInputs == {Flatten(cs) : cs \in SeqsUpTo(InfoChunks, MaxChunks)}

ByteAlphabet == {97, 195, 169, 255}

ByteInputs == SeqsUpTo(ByteAlphabet, MaxBytes)

UnitX    == [name |-> <<"X">>, path |-> <<"/","X">>]
UnitSshd == [name |-> <<"s","s","h","d">>, path |-> <<"/","s","s","h","d">>]
NoUnit   == [name |-> <<>>, path |-> <<>>]

Units     == {UnitX, UnitSshd}
UnitPaths == {u.path : u \in Units}
UnitNames == {u.name : u \in Units}

FileInputs ==
    {FileNotFound, FileDenied}
    \cup {FileOf(m, r, b) : m \in {"Ok", "Err"}, r \in {"Ok", "IoError"}, b \in ByteInputs}

\* What the other unit's file and journal hold.
OtherFile == FileOf("Ok", "Ok", <<97, 97, 97, 97, 97>>)
OtherLog  == <<97, 97, 97, 97, 97>>

FsWith(path, file) == [p \in UnitPaths |-> IF p = path THEN file ELSE OtherFile]
ToolWith(spawn, name, bytes) ==
    [spawn |-> spawn, logs |-> [n \in UnitNames |-> IF n = name THEN bytes ELSE OtherLog]]

DefaultEnv ==
    [fs |-> FsWith(<<>>, OtherFile), tool |-> ToolWith("Ok", <<>>, OtherLog)]

Request(op, text, unit) == [op |-> op, text |-> text, unit |-> unit]
NoRequest == Request("none", <<>>, NoUnit)

\* The units a caller enumerates after the first call.
BatchRequests ==
    {Request("UnitType::new", p, NoUnit) :
        p \in {<<"a",".">> \o W_service, <<"a",".">> \o W_timer,
               <<"a",".","c","o","n","f">>, <<"a">>}}
    \cup
    {Request("UnitState::new", m, NoUnit) :
        m \in {<<" ","S","t","r","(","\"">> \o w \o <<"\"",")","]">> :
                 w \in {<<"e","n","a","b","l","e","d">>, <<"m","a","s","k","e","d">>,
                        <<"u","n","k","n","o","w","n">>, <<>>}}}

(***************************************************************************)
(* The process: it makes one call at a time and ends when a call panics.   *)
(***************************************************************************)
Outcome(op, text, unit, out, argv) ==
    [op |-> op, text |-> text, unit |-> unit, out |-> out, argv |-> argv]

NoLast == Outcome("none", <<>>, NoUnit, NoOutcome, <<>>)

Init ==
    /\ running = TRUE
    /\ remaining = MaxBatch
    /\ last = NoLast
    /\ \/ /\ \E p \in PathInputs : req = Request("UnitType::new", p, NoUnit)
          /\ env = DefaultEnv
       \/ /\ \E m \in MsgInputs : req = Request("UnitState::new", m, NoUnit)
          /\ env = DefaultEnv
       \/ /\ \E i \in InfoInputs : req = Request("get_unit_description", i, NoUnit)
          /\ env = DefaultEnv
       \/ \E u \in Units, f \in FileInputs :
             /\ req = Request("get_info", <<>>, u)
             /\ env = [DefaultEnv EXCEPT !.fs = FsWith(u.path, f)]
       \/ \E u \in Units, s \in {"Ok", "NotFound"}, b \in ByteInputs :
             /\ req = Request("get_journal", <<>>, u)
             /\ env = [DefaultEnv EXCEPT !.tool = ToolWith(s, u.name, b)]

\* The call returns to the caller, or unwinds and ends the process.
Return(out, argv) ==
    /\ last' = Outcome(req.op, req.text, req.unit, out, argv)
    /\ running' = (out.kind # "panic")
    /\ req' = NoRequest
    /\ UNCHANGED <<env, remaining>>

CallUnitTypeNew ==
    /\ running
    /\ req.op = "UnitType::new"
    /\ Return(UnitType_new(req.text), <<>>)

CallUnitStateNew ==
    /\ running
    /\ req.op = "UnitState::new"
    /\ Return(UnitState_new(req.text), <<>>)

CallGetUnitDescription ==
    /\ running
    /\ req.op = "get_unit_description"
    /\ Return(get_unit_description(req.text), <<>>)

CallGetInfo ==
    /\ running
    /\ req.op = "get_info"
    /\ Return(get_info(req.unit, env.fs), <<>>)

CallGetJournal ==
    /\ running
    /\ req.op = "get_journal"
    /\ Return(get_journal(req.unit, env.tool), journal_command(req.unit))

\* The caller takes the result and goes on to the next unit of its batch.
Enumerate ==
    /\ running
    /\ req.op = "none"
    /\ remaining > 0
    /\ \E r \in BatchRequests : req' = r
    /\ remaining' = remaining - 1
    /\ last' = NoLast
    /\ UNCHANGED <<env, running>>

Next ==
    \/ CallUnitTypeNew
    \/ CallUnitStateNew
    \/ CallGetUnitDescription
    \/ CallGetInfo
    \/ CallGetJournal
    \/ Enumerate

Spec == Init /\ [][Next]_vars

(***************************************************************************)
(* Reference tables of the specification, used to state the properties.    *)
(***************************************************************************)
SuffixType(w) ==
    CASE w = W_automount -> "Automount"
      [] w = W_busname   -> "Busname"
      [] w = W_mount     -> "Mount"
      [] w = W_path      -> "Path"
      [] w = W_scope     -> "Scope"
      [] w = W_service   -> "Service"
      [] w = W_slice     -> "Slice"
      [] w = W_socket    -> "Socket"
      [] w = W_swap      -> "Swap"
      [] w = W_target    -> "Target"
      [] w = W_timer     -> "Timer"

LetterState(c) ==
    CASE c = "s" -> "Static"
      [] c = "d" -> "Disabled"
      [] c = "e" -> "Enabled"
      [] c = "i" -> "Indirect"
      [] c = "l" -> "Linked"
      [] c = "m" -> "Masked"
      [] c = "b" -> "Bad"
      [] c = "g" -> "Generated"
      [] c = "t" -> "Transient"

\* The state a full-word match of the payload names.
WordState(w) ==
    CASE w = <<"s","t","a","t","i","c">>             -> "Static"
      [] w = <<"d","i","s","a","b","l","e","d">>     -> "Disabled"
      [] w = <<"e","n","a","b","l","e","d">>         -> "Enabled"
      [] w = <<"i","n","d","i","r","e","c","t">>     -> "Indirect"
      [] w = <<"l","i","n","k","e","d">>             -> "Linked"
      [] w = <<"m","a","s","k","e","d">>             -> "Masked"
      [] w = <<"b","a","d">>                         -> "Bad"
      [] w = <<"g","e","n","e","r","a","t","e","d">> -> "Generated"
      [] w = <<"t","r","a","n","s","i","e","n","t">> -> "Transient"

\* A structured error returned to the caller.
Err(tag) == [kind |-> "error", tag |-> tag, text |-> <<>>]

\* The substring after the final '.' of the file name, when it has a '.'.
AfterFinalDot(pathname) ==
    LET fn == FileName(pathname) IN
    IF fn.some /\ LastIndexOf(fn.val, ".") > 0
    THEN Some(Drop(fn.val, LastIndexOf(fn.val, ".")))
    ELSE None

\* The same, when the final '.' is not the first character of the file name.
AfterInnerFinalDot(pathname) ==
    LET fn == FileName(pathname) IN
    IF fn.some /\ LastIndexOf(fn.val, ".") > 1
    THEN Some(Drop(fn.val, LastIndexOf(fn.val, ".")))
    ELSE None

TypeCalled  == last.op = "UnitType::new"
StateCalled == last.op = "UnitState::new"

(***************************************************************************)
(* C1                                                                      *)
(***************************************************************************)
\* C1 (as stated): UnitType::new yields the type of the substring after the
\* final '.' of the file name when that is one of the eleven suffixes, and
\* yields no type for any other path.
C1_AsStated ==
    TypeCalled =>
        LET ext == AfterFinalDot(last.text) IN
        IF ext.some /\ ext.val \in RecognizedSuffixes
        THEN last.out = Value(SuffixType(ext.val))
        ELSE last.out.kind # "value"

\* C1 (amended): UnitType::new yields the type of the substring after the
\* final '.' of the file name when that '.' is not the first character of the
\* file name and the substring is one of the eleven suffixes, matched exactly
\* and case-sensitively; it yields no type for any other path.
C1_ExtensionMapsToType ==
    TypeCalled =>
        LET ext == AfterInnerFinalDot(last.text) IN
        IF ext.some /\ ext.val \in RecognizedSuffixes
        THEN last.out = Value(SuffixType(ext.val))
        ELSE last.out.kind # "value"

C1_Witness ==
    /\ TypeCalled
    /\ last.text = <<"e","t","c","/","a",".","b",".","s","w","a","p">>
    /\ last.out = Value("Swap")

(***************************************************************************)
(* C2                                                                      *)
(***************************************************************************)
\* C2: a message whose first payload character (the one after the
\* PayloadOffset characters of the wrapper) is one of the nine letters is
\* decoded to the state of that letter, whatever follows the letter.
C2_FirstLetterDecides ==
    StateCalled =>
        (Len(last.text) > PayloadOffset
         /\ last.text[PayloadOffset + 1] \in Discriminators
            => last.out = Value(LetterState(last.text[PayloadOffset + 1])))

C2_Witness ==
    /\ StateCalled
    /\ last.text = <<" ","S","t","r","(","\"","e","s">>
    /\ last.out = Value("Enabled")

(***************************************************************************)
(* C3                                                                      *)
(***************************************************************************)
\* C3: a path with no extension or an unrecognized one makes the
\* classification return the error UnrecognizedUnitType, and the process
\* goes on.
C3_UnrecognizedTypeIsAnError ==
    TypeCalled =>
        (~(Extension(last.text).some /\ Extension(last.text).val \in RecognizedSuffixes)
            => last.out = Err("UnrecognizedUnitType") /\ running)

(***************************************************************************)
(* C4                                                                      *)
(***************************************************************************)
\* C4: a message that is too short, has an empty payload or starts its
\* payload with a character outside the nine letters makes the decoding
\* return the error UnrecognizedUnitState, and the process goes on.
C4_UnrecognizedStateIsAnError ==
    StateCalled =>
        (\/ Len(last.text) <= PayloadOffset
         \/ last.text[PayloadOffset + 1] \notin Discriminators
            => last.out = Err("UnrecognizedUnitState") /\ running)

(***************************************************************************)
(* C5                                                                      *)
(***************************************************************************)
\* C5: while units of the batch remain to be processed the process is
\* running, whatever the units before them were.
C5_BatchGoesOn == remaining > 0 => running

(***************************************************************************)
(* C6                                                                      *)
(***************************************************************************)
Example1 == NameFoo \o <<"\n">> \o DescriptionPrefix \o MyService \o <<"\n">>
Example2 == NameFoo \o <<"\n">>

\* C6: get_unit_description returns what follows "Description=" on the first
\* line that begins with it, and is absent exactly when no line begins with it.
C6_FirstDescriptionLine ==
    last.op = "get_unit_description" =>
        LET ls == Lines(last.text)
            at == {i \in 1..Len(ls) : StartsWith(ls[i], DescriptionPrefix)}
        IN  /\ (at = {}) = (last.out = OptNone)
            /\ at # {} =>
                 \E i \in at :
                    /\ \A j \in at : i <= j
                    /\ last.out.kind = "Some"
                    /\ DescriptionPrefix \o last.out.text = ls[i]
            /\ last.text = Example1 => last.out = OptSome(MyService)
            /\ last.text = Example2 => last.out = OptNone

C6_Witness ==
    /\ last.op = "get_unit_description"
    /\ last.text = Example1
    /\ last.out = OptSome(MyService)

(***************************************************************************)
(* C7                                                                      *)
(***************************************************************************)
\* C7: get_info returns the text of the file at the unit's path when it can
\* be opened and read, the empty string on every failure; it returns to the
\* caller and leaves the file system as it was.
C7_InfoOrEmpty ==
    [][last'.op = "get_info" /\ last.op # "get_info" =>
        LET f == env.fs[last'.unit.path] IN
        /\ env' = env
        /\ running'
        /\ IF f.open = "Ok" /\ f.read = "Ok" /\ Utf8Decode(f.bytes).some
           THEN last'.out = Text(Utf8Decode(f.bytes).val)
           ELSE last'.out = Text(<<>>)]_vars

C7_Witness ==
    /\ last.op = "get_info"
    /\ env.fs[last.unit.path].open = "NotFound"
    /\ last.out = Text(<<>>)
    /\ running

(***************************************************************************)
(* C8                                                                      *)
(***************************************************************************)
FallbackForX ==
    <<"U","n","a","b","l","e"," ","t","o"," ","r","e","a","d"," ","t","h","e"," ",
      "j","o","u","r","n","a","l"," ","e","n","t","r","y"," ","f","o","r"," ","X",".">>

\* C8: get_journal runs journalctl -b -r -u <name> and returns its output
\* when the tool ran and wrote valid UTF-8; else it returns "Unable to read
\* the journal entry for <name>."; it always returns to the caller.
C8_JournalOrFallback ==
    last.op = "get_journal" =>
        LET bytes == env.tool.logs[last.unit.name] IN
        /\ running
        /\ last.argv = <<<<"j","o","u","r","n","a","l","c","t","l">>, <<"-","b">>,
                         <<"-","r">>, <<"-","u">>, last.unit.name>>
        /\ IF env.tool.spawn = "Ok" /\ Utf8Decode(bytes).some
           THEN last.out = Text(Utf8Decode(bytes).val)
           ELSE /\ last.out = Text(JournalFallbackHead \o last.unit.name \o <<".">>)
                /\ last.unit = UnitX => last.out = Text(FallbackForX)

C8_Witness ==
    /\ last.op = "get_journal"
    /\ env.tool.spawn = "NotFound"
    /\ last.unit = UnitX
    /\ last.out = Text(FallbackForX)

(***************************************************************************)
(* C9                                                                      *)
(***************************************************************************)
\* C9 (as stated): the character decoded to a state has at least 7
\* characters before it: a decoded message has an eighth character and the
\* state is the one of that character.
C9_AsStated ==
    StateCalled /\ last.out.kind = "value" =>
        /\ Len(last.text) >= 8
        /\ last.text[8] \in Discriminators
        /\ last.out.tag = LetterState(last.text[8])

\* C9 (amended): the character decoded to a state has exactly 6 characters
\* before it: a decoded message has a seventh character, the state is the
\* one of that character, and a message of fewer than 7 characters is
\* never decoded.
C9_SixCharactersBefore ==
    StateCalled =>
        /\ last.out.kind = "value" =>
              /\ Len(last.text) >= 7
              /\ last.text[7] \in Discriminators
              /\ last.out.tag = LetterState(last.text[7])
        /\ Len(last.text) < 7 => last.out.kind = "panic"

C9_Witness ==
    /\ StateCalled
    /\ last.text = <<" "," "," "," "," "," ","m">>
    /\ last.out = Value("Masked")

(***************************************************************************)
(* C10                                                                     *)
(***************************************************************************)
\* C10: the nine state names have pairwise distinct first letters, and a
\* message carrying one of them as its payload is decoded to the state a
\* full-word match of the payload names.
C10_FirstLetterAgreesWithWord ==
    /\ \A v, w \in StateNames : v # w => v[1] # w[1]
    /\ StateCalled =>
          LET payload == TakeWhileNot(Drop(last.text, PayloadOffset), "\"") IN
          payload \in StateNames => last.out = Value(WordState(payload))

C10_Witness ==
    /\ StateCalled
    /\ last.text = <<" ","S","t","r","(","\"">> \o <<"t","r","a","n","s","i","e","n","t">>
                   \o <<"\"",")","]">>
    /\ last.out = Value("Transient")

====
